---------------------------- MODULE Spec2Model ----------------------------
(***************************************************************************)
(* platter-walk: the ToScan iterator (src/lib.rs).  The scanner's fields   *)
(* are the record `self`; every method is an operator on that record,      *)
(* translated statement by statement, and every public method is one       *)
(* action.  The file system the scanner walks is the record `fs`, fixed    *)
(* when a behaviour starts.                                                *)
(***************************************************************************)
EXTENDS Integers, Sequences, FiniteSets, TLC

VARIABLES
    self,      \* the ToScan struct
    fs,        \* the file system, mount table and block devices (environment)
    ret,       \* what the last public call returned
    trace,     \* history: what the calls so far did, in order
    roots,     \* history: the paths add_root was called with successfully
    calls,     \* history: number of add_root calls made (bounded by MaxRoots)
    idle       \* history: next() calls in a row that returned None, up to MaxIdle

vars == <<self, fs, ret, trace, roots, calls, idle>>

(***************************************************************************)
(* Bounds of the model.                                                    *)
(***************************************************************************)
NumNodes == 4      \* paths of the file system are 1..NumNodes
MaxIno == 3        \* inode numbers are 1..MaxIno
MaxOff == 2        \* first physical offsets are 0..MaxOff
MaxBatch == 2      \* set_batchsize is called with 1..MaxBatch
MaxRoots == 2      \* add_root is called at most this often
MaxIdle == 2       \* next() calls counted on an exhausted scanner
Fanout == 12       \* directories below the root of the wide file system
MaxPhys == 3       \* an overlapping extent starts at 1..MaxPhys
MaxLen == 3        \* and is 1..MaxLen long

(***************************************************************************)
(* Program constants.                                                      *)
(***************************************************************************)
LIMIT == 8 * 1024 * 1024
CAP_MAX == 2048
CAP_MISS == 2
DEFAULT_BATCH == 1024
\* u64::MAX; the model's integers are narrower, and no key exceeds this one
U64_MAX == 2147483647

(***************************************************************************)
(* Option<T>: None or Some(x).                                             *)
(***************************************************************************)
None == <<>>
Some(x) == <<x>>
is_some(o) == o # <<>>
unwrap(o) == o[1]

\* let x = v in F(x), with v computed once
Bind(v, F(_)) == CHOOSE r \in { F(x) : x \in {v} } : TRUE

(***************************************************************************)
(* Paths.  A path is a node number; 0 is "/", above every node, and -1 is  *)
(* a path that does not exist.  The paths of the file system f are the     *)
(* domain of f.parent.                                                     *)
(***************************************************************************)
Nodes == 1..NumNodes
NodesOf(f) == DOMAIN f.parent
Missing == 0 - 1

RECURSIVE Ancestors(_, _)
Ancestors(f, p) ==
    IF p = 0 THEN {0} ELSE {p} \cup Ancestors(f, f.parent[p])

\* Path::starts_with: q is a prefix of p
starts_with(f, p, q) == q \in Ancestors(f, p)

\* what read_dir(d) enumerates, in the directory's own order
Children(f, d) == { n \in NodesOf(f) : f.parent[n] = d }

\* the numbers of S in ascending order
SetToSeq(S) ==
    [i \in 1..Cardinality(S) |->
        CHOOSE x \in S : Cardinality({ y \in S : y < x }) = i - 1]

ReadDirSeq(f, d) == SetToSeq(Children(f, d))

\* everything below the root r, r excluded
RECURSIVE Below(_, _)
Below(f, r) ==
    LET c == Children(f, r)
    IN c \cup UNION { Below(f, n) : n \in c }

(***************************************************************************)
(* Entry                                                                   *)
(***************************************************************************)
Entry_new(buf, ft, ino, extents) ==
    [path |-> buf, ftype |-> ft, ino |-> ino, extents |-> extents]

RECURSIVE SumLengths(_)
SumLengths(exts) ==
    IF exts = <<>> THEN 0 ELSE Head(exts).length + SumLengths(Tail(exts))

extent_sum(e) == SumLengths(e.extents)

(***************************************************************************)
(* Vec::sort_by_key: a stable sort, ascending by key.                      *)
(***************************************************************************)
sort_by_key(seq, K(_)) ==
    Bind(seq, LAMBDA q :
        LET n == Len(q)
            rank(i) == Cardinality({ j \in 1..n : K(q[j]) < K(q[i]) })
                       + Cardinality({ j \in 1..n : j < i /\ K(q[j]) = K(q[i]) })
                       + 1
        IN [k \in 1..n |-> q[CHOOSE i \in 1..n : rank(i) = k]])

Reverse(seq) == [i \in 1..Len(seq) |-> seq[Len(seq) + 1 - i]]

(***************************************************************************)
(* ToScan::new                                                             *)
(***************************************************************************)
ToScan_new ==
    [ phy_sorted        |-> <<>>,     \* BTreeMap: a function on its keys
      phy_sorted_leaves |-> <<>>,
      unordered         |-> <<>>,
      cursor            |-> 0,
      current_dir       |-> None,     \* Some([dir, pos]): an open ReadDir
      inode_ordered     |-> <<>>,
      order             |-> "Dentries",
      phase             |-> "DirWalk",
      batch_size        |-> DEFAULT_BATCH,
      prefilter         |-> None,
      prefetched        |-> <<>>,     \* HashMap: a function on its keys
      mountpoints       |-> <<>>,
      prefetch_cap      |-> 0 ]

\* variant: the open directory is not looked at
is_empty_queue_only(s) ==
    /\ DOMAIN s.phy_sorted = {}
    /\ s.unordered = <<>>

is_empty(s) ==
    /\ DOMAIN s.phy_sorted = {}
    /\ s.unordered = <<>>
    /\ s.current_dir = None

(***************************************************************************)
(* Maps: BTreeMap / HashMap as functions.                                  *)
(***************************************************************************)
MapInsert(m, k, v) == [x \in DOMAIN m \cup {k} |-> IF x = k THEN v ELSE m[x]]
MapRemove(m, k) == [x \in DOMAIN m \ {k} |-> m[x]]

(***************************************************************************)
(* ToScan::add                                                             *)
(***************************************************************************)
\* variant: the entry that held the key is dropped
add_lossy(s, to_add, pos) ==
    IF is_some(pos)
    THEN [s EXCEPT !.phy_sorted = MapInsert(@, unwrap(pos), to_add)]
    ELSE [s EXCEPT !.unordered = Append(@, to_add)]

add(s, to_add, pos) ==
    IF is_some(pos)
    THEN LET idx == unwrap(pos)
         IN IF idx \in DOMAIN s.phy_sorted
            THEN [s EXCEPT !.phy_sorted = MapInsert(@, idx, to_add),
                           !.unordered = Append(@, s.phy_sorted[idx])]
            ELSE [s EXCEPT !.phy_sorted = MapInsert(@, idx, to_add)]
    ELSE [s EXCEPT !.unordered = Append(@, to_add)]


(***************************************************************************)
(* ToScan::remove_prefetch: the hit / miss feedback.                       *)
(***************************************************************************)
Min(a, b) == IF a < b THEN a ELSE b

\* variant: the cap is not clamped
CapAfterHit_unclamped(cap) == cap * 2 + 1

CapAfterHit(cap) == Min(CAP_MAX, cap * 2 + 1)

\* variant: a hit leaves the path recorded
remove_prefetch_keep(s, e) ==
    IF is_some(e)
    THEN IF unwrap(e).path \in DOMAIN s.prefetched
         THEN [s EXCEPT !.prefetch_cap = CapAfterHit(s.prefetch_cap)]
         ELSE [s EXCEPT !.prefetch_cap = CAP_MISS,
                        !.prefetched = <<>>]
    ELSE s

\* lines 186-196
remove_prefetch(s, e) ==
    IF is_some(e)
    THEN IF unwrap(e).path \in DOMAIN s.prefetched
         THEN [s EXCEPT !.prefetched = MapRemove(@, unwrap(e).path),
                        !.prefetch_cap = CapAfterHit(s.prefetch_cap)]
         ELSE [s EXCEPT !.prefetch_cap = CAP_MISS,
                        !.prefetched = <<>>]
    ELSE s

(***************************************************************************)
(* ToScan::prefetch                                                        *)
(***************************************************************************)
saturating_sub(a, b) == IF a > b THEN a - b ELSE 0

RECURSIVE SumFirst(_, _)
SumFirst(seq, n) == IF n = 0 THEN 0 ELSE seq[n] + SumFirst(seq, n - 1)

\* self.prefetched.iter().map(|ref tuple| tuple.1).sum::<u64>()
SumValues(m) ==
    Bind(SetToSeq(DOMAIN m), LAMBDA keys :
        SumFirst([i \in 1..Len(keys) |-> m[keys[i]]], Len(keys)))

\* the values of phy_sorted whose keys lie in K, ascending by key
RangeValues(s, K) == LET ks == SetToSeq(K) IN [i \in 1..Len(ks) |-> s.phy_sorted[ks[i]]]

\* unordered_iter.chain(ordered_iter_front).chain(ordered_iter_tail)
PrefetchCandidates(s) ==
    s.unordered
    \o RangeValues(s, { k \in DOMAIN s.phy_sorted : k >= s.cursor })
    \o RangeValues(s, { k \in DOMAIN s.phy_sorted : k < s.cursor })

\* self.mountpoints.iter().rev().find(|mnt| e.path().starts_with(&mnt.file))
FindMount(f, mountpoints, e) ==
    LET hits == { i \in 1..Len(mountpoints) : starts_with(f, e.path, mountpoints[i].file) }
    IN IF hits = {} THEN None
       ELSE Some(mountpoints[CHOOSE i \in hits : \A j \in hits : j <= i])

\* variant: the walk does not stop when the budget is used up
BudgetSpent_never(remaining) == FALSE

\* line 224: the byte budget is used up
BudgetSpent(remaining) == remaining = 0

\* variant: the window admits one more path
WindowFull_wider(prefetched, cap) == Cardinality(DOMAIN prefetched) > cap + 2

\* line 228: the window of prefetched paths is full
WindowFull(prefetched, cap) == Cardinality(DOMAIN prefetched) > cap + 1

\* the selection walk; st = [remaining, prefetched, device_groups]
RECURSIVE SelectionWalk(_, _, _, _, _)
SelectionWalk(f, s, cands, i, st) ==
    IF i > Len(cands) THEN st
    ELSE IF BudgetSpent(st.remaining) THEN st
    ELSE IF WindowFull(st.prefetched, s.prefetch_cap) THEN st
    ELSE LET e == cands[i] IN
         IF e.path \in DOMAIN st.prefetched
         THEN SelectionWalk(f, s, cands, i + 1, st)
         ELSE LET size == extent_sum(e)
                  mount == FindMount(f, s.mountpoints, e)
                  grouped == /\ is_some(mount)
                             /\ unwrap(mount).vfstype \in {"ext4", "ext3"}
                  spec == unwrap(mount).spec
                  groups == IF ~grouped THEN st.device_groups
                            ELSE IF spec \in DOMAIN st.device_groups
                            THEN [st.device_groups EXCEPT ![spec] = @ \o e.extents]
                            ELSE MapInsert(st.device_groups, spec, e.extents)
              IN Bind([remaining |-> saturating_sub(st.remaining, size),
                       prefetched |-> MapInsert(st.prefetched, e.path, size),
                       device_groups |-> groups],
                      LAMBDA st1 : SelectionWalk(f, s, cands, i + 1, st1))

physical_of(ext) == ext.physical

\* the inner for loop: from j on, with the current i and end
RECURSIVE CoalesceInner(_, _, _, _)
CoalesceInner(o, j, i, end) ==
    IF j > Len(o) THEN [i |-> i, end |-> end]
    ELSE IF o[j].physical > end THEN [i |-> i, end |-> end]
    ELSE CoalesceInner(o, j + 1, j, o[j].physical + o[j].length)

\* the while loop: the posix_fadvise calls (offset, length) for a sorted bucket
RECURSIVE Coalesce(_, _)
Coalesce(o, i) ==
    IF i > Len(o) THEN <<>>
    ELSE LET offset == o[i].physical
         IN Bind(CoalesceInner(o, i + 1, i, offset + o[i].length), LAMBDA r :
                <<[offset |-> offset, len |-> r.end - offset]>> \o Coalesce(o, r.i + 1))

file_open(f, spec) == spec \notin f.dead

Retain(seq, keep(_)) == SelectSeq(seq, keep)

\* the posix_fadvise calls for one device bucket
Hints(extents) == Bind(sort_by_key(extents, physical_of), LAMBDA o : Coalesce(o, 1))

\* lines 254-295: the device buckets are hinted, the mount table is pruned
AfterWalk(f, s, st) ==
    LET groups == st.device_groups
        prune == { p \in DOMAIN groups : ~file_open(f, p) }
        InPrune(m) == m.spec \in prune
    IN [self |-> [s EXCEPT !.prefetched = st.prefetched,
                           !.mountpoints = IF prune # {} THEN Retain(@, InPrune) ELSE @],
        hints |-> [p \in DOMAIN groups \ prune |-> Hints(groups[p])],
        groups |-> groups]

\* returns the scanner after the call, the device buckets and the hints issued
\* per device that opened
prefetch(f, s) ==
    IF s.mountpoints = <<>> THEN [self |-> s, hints |-> <<>>, groups |-> <<>>]
    ELSE Bind(saturating_sub(LIMIT, SumValues(s.prefetched)), LAMBDA remaining :
            IF remaining < LIMIT \div 2 THEN [self |-> s, hints |-> <<>>, groups |-> <<>>]
            ELSE Bind(PrefetchCandidates(s), LAMBDA cands :
                    Bind(SelectionWalk(f, s, cands, 1,
                                       [remaining |-> remaining,
                                        prefetched |-> s.prefetched,
                                        device_groups |-> <<>>]),
                         LAMBDA st : AfterWalk(f, s, st))))

(***************************************************************************)
(* ToScan::get_next                                                        *)
(***************************************************************************)
\* variant: the cursor is not looked at
Front_any(s) == DOMAIN s.phy_sorted

\* variant: the range excludes the cursor itself
Front_above(s) == { k \in DOMAIN s.phy_sorted : k > s.cursor }

\* line 175: the keys of phy_sorted in the range cursor..=u64::MAX
Front(s) == { k \in DOMAIN s.phy_sorted : k >= s.cursor }

get_next(f, s) ==
    Bind(prefetch(f, s), LAMBDA p :
       LET s1 == p.self
       IN IF s1.unordered # <<>>
          THEN LET res == Some(Head(s1.unordered))
                   s2 == [s1 EXCEPT !.unordered = Tail(@)]
               IN [self |-> remove_prefetch(s2, res), res |-> res,
                   key |-> None, hints |-> p.hints, groups |-> p.groups, fetched |-> s1.prefetched]
          ELSE LET front == Front(s1)
               IN IF front # {}
                  THEN LET k == CHOOSE x \in front : \A y \in front : x <= y
                           res == Some(s1.phy_sorted[k])
                           s2 == [s1 EXCEPT !.cursor = k,
                                            !.phy_sorted = MapRemove(@, k)]
                       IN [self |-> remove_prefetch(s2, res), res |-> res,
                           key |-> Some(k), hints |-> p.hints, groups |-> p.groups, fetched |-> s1.prefetched]
                  ELSE [self |-> s1, res |-> None, key |-> None, hints |-> p.hints, groups |-> p.groups,
                        fetched |-> s1.prefetched])

(***************************************************************************)
(* What a call returns, and what it did (one event per step).              *)
(***************************************************************************)
NoEntry == Entry_new(0, "none", 0, <<>>)
Ret(tag, e) == [tag |-> tag, entry |-> e]
RetOk(e) == Ret("Ok", e)
RetErr(path) == Ret("Err", Entry_new(path, "err", 0, <<>>))
RetNone == Ret("None", NoEntry)
RetPanic == Ret("Panic", NoEntry)

Ev(op, path, x) == [op |-> op, path |-> path, x |-> x]

(***************************************************************************)
(* The system calls next() makes, answered by fs.                          *)
(***************************************************************************)
Fault(f, kind, n) == <<kind, n>> \in f.faults

\* std::fs::read_dir
read_dir_ok(f, p) == p \in NodesOf(f) /\ f.kind[p] = "dir" /\ ~Fault(f, "open", p)

\* get_file_extent_map_for_path, Err taken as no extents
extent_map(f, p) == f.ext[p]

\* the prefilter closure: Some(R) rejects exactly the paths in R
filter(flt, path, ft) == path \notin unwrap(flt)

ino_desc_key(dent) == U64_MAX - dent.ino
pair_key(pair) == pair[1]

(***************************************************************************)
(* Iterator::next, lines 321-403: the DirWalk loop.  An iteration ends     *)
(* with ret = Some(r) when it returns r, and with ret = None when the loop *)
(* goes on (continue, or the end of the loop body).                        *)
(***************************************************************************)
Out(s, log, r) == [self |-> s, log |-> log, ret |-> r]

\* variant: the batch is closed one entry late
BatchFull_late(s) == Len(s.inode_ordered) > s.batch_size

\* line 397
BatchFull(s) == Len(s.inode_ordered) >= s.batch_size

\* lines 397-402: the end of the loop body
BatchCheck(f, s, log) ==
    IF BatchFull(s)
    THEN IF s.order = "Dentries"
         THEN Out(s, Append(log, Ev("panic", 0, 398)), Some(RetPanic))
         ELSE Out([s EXCEPT !.phase = "InodePass",
                            !.inode_ordered = sort_by_key(s.inode_ordered, ino_desc_key)],
                  Append(log, Ev("batch", 0, Len(s.inode_ordered))), None)
    ELSE Out(s, log, None)

\* variant: a directory the prefilter rejects is not queued
Discover_after_filter(f, s, dent) ==
    LET meta == f.kind[dent]
        to_add == Entry_new(dent, meta, f.ino[dent], extent_map(f, dent))
    IN IF meta = "dir" /\ (is_some(s.prefilter) => filter(s.prefilter, dent, meta))
       THEN IF to_add.extents # <<>>
            THEN add(s, to_add, Some(to_add.extents[1].physical))
            ELSE add(s, to_add, None)
       ELSE s

\* variant: a directory without extents is not queued
Discover_skip_unmapped(f, s, dent) ==
    LET meta == f.kind[dent]
        to_add == Entry_new(dent, meta, f.ino[dent], extent_map(f, dent))
    IN IF meta = "dir" /\ to_add.extents # <<>>
       THEN add(s, to_add, Some(to_add.extents[1].physical))
       ELSE s

\* lines 359-378: a directory read from the open directory joins the work queue
Discover(f, s, dent) ==
    LET meta == f.kind[dent]
        extents == extent_map(f, dent)
        to_add == Entry_new(dent, meta, f.ino[dent], extents)
    IN IF meta = "dir"
       THEN IF to_add.extents # <<>>
            THEN add(s, to_add, Some(to_add.extents[1].physical))
            ELSE add(s, to_add, None)
       ELSE s

\* variant: every order buffers the entry
EmitsAtOnce_never(order) == FALSE

\* lines 386-389: the entry is returned by the call that read it
EmitsAtOnce(order) == order = "Dentries"

\* lines 339-402
ReadEntry(f, s, log) ==
    LET cd == unwrap(s.current_dir)
        listing == ReadDirSeq(f, cd.dir)
    IN IF cd.pos > Len(listing)
       THEN Out([s EXCEPT !.current_dir = None], Append(log, Ev("close", cd.dir, 0)), None)
       ELSE
       LET dent == listing[cd.pos]
           s1 == [s EXCEPT !.current_dir = Some([cd EXCEPT !.pos = @ + 1])]
       IN IF Fault(f, "dent", dent)
          THEN Out(s1, Append(log, Ev("err", dent, 350)), Some(RetErr(dent)))
          ELSE IF Fault(f, "ftype", dent)
          THEN Out(s1, Append(log, Ev("err", dent, 354)), Some(RetErr(dent)))
          ELSE
          LET meta == f.kind[dent]
              s2 == Discover(f, s1, dent)
              log2 == Append(log, Ev("read", dent, cd.dir))
          IN IF is_some(s.prefilter) /\ ~filter(s.prefilter, dent, meta)
             THEN Out(s2, Append(log2, Ev("filter", dent, 0)), None)
             ELSE
             LET log3 == IF is_some(s.prefilter)
                         THEN Append(log2, Ev("filter", dent, 1)) ELSE log2
                 e == Entry_new(dent, meta, f.ino[dent], <<>>)
             IN IF EmitsAtOnce(s.order)
                THEN Out(s2, Append(log3, Ev("yield", dent, 0)), Some(RetOk(e)))
                ELSE Bind([s2 EXCEPT !.inode_ordered = Append(@, e)],
                          LAMBDA s3 : BatchCheck(f, s3, log3))

\* variant: the directory that failed to open is queued again
OpenFailed_retry(s, nxt) == add(s, nxt, None)

\* line 335: read_dir failed; nxt was taken from the queue and is dropped
OpenFailed(s, nxt) == s

\* what a get_next call did: the paths prefetch() recorded, the devices it tried
\* (the bucket and the posix_fadvise ranges, or the failed open), the entry taken (with
\* its key, -1 when it came from unordered) and whether that was a hit or a miss
\* and, when prefetching is on, the bytes recorded when prefetch() returned
DeviceLog(s, g) ==
    LET IsFirst(i) == /\ s.mountpoints[i].spec \in DOMAIN g.groups
                      /\ \A j \in 1..(i - 1) : s.mountpoints[j].spec # s.mountpoints[i].spec
        devs == SetToSeq({ i \in 1..Len(s.mountpoints) : IsFirst(i) })
    IN [i \in 1..Len(devs) |->
           LET spec == s.mountpoints[devs[i]].spec
           IN IF spec \in DOMAIN g.hints
              THEN Ev("fadvise", spec, [extents |-> g.groups[spec], ranges |-> g.hints[spec]])
              ELSE Ev("nodev", spec, 0)]

FetchLog(s, g) ==
    LET new == SetToSeq(DOMAIN g.fetched \ DOMAIN s.prefetched)
    IN [i \in 1..Len(new) |-> Ev("prefetch", new[i], g.fetched[new[i]])]
       \o DeviceLog(s, g)
       \o (IF s.mountpoints # <<>>
           THEN <<Ev("budget", Cardinality(DOMAIN g.fetched), SumValues(g.fetched))>>
           ELSE <<>>)

TakeLog(g) ==
    LET nxt == unwrap(g.res)
    IN << Ev("take", nxt.path, IF is_some(g.key) THEN unwrap(g.key) ELSE -1),
          Ev(IF nxt.path \in DOMAIN g.fetched THEN "hit" ELSE "miss",
             nxt.path, g.self.prefetch_cap) >>

\* lines 322-402: one iteration of the loop
Iteration(f, s, log) ==
    IF s.current_dir = None
    THEN Bind(get_next(f, s), LAMBDA g :
            IF g.res = None
            THEN Out([g.self EXCEPT !.cursor = 0],
                     Append(log \o FetchLog(s, g), Ev("wrap", 0, s.cursor)), None)
            ELSE LET nxt == unwrap(g.res)
                     log1 == log \o FetchLog(s, g) \o TakeLog(g)
                 IN IF read_dir_ok(f, nxt.path)
                    THEN ReadEntry(f, [g.self EXCEPT !.current_dir =
                                           Some([dir |-> nxt.path, pos |-> 1])],
                                   Append(log1, Ev("open", nxt.path, 1)))
                    ELSE Out(OpenFailed(g.self, nxt), Append(log1, Ev("open", nxt.path, 0)),
                             Some(RetErr(nxt.path))))
    ELSE ReadEntry(f, s, log)

\* line 321: the loop
RECURSIVE DirWalk(_, _, _)
DirWalk(f, s, log) ==
    IF ~(s.phase = "DirWalk" /\ ~is_empty(s))
    THEN Out(s, log, None)
    ELSE Bind(Iteration(f, s, log), LAMBDA it :
            IF is_some(it.ret) THEN it ELSE DirWalk(f, it.self, it.log))

(***************************************************************************)
(* Iterator::next, lines 406-443: the inode pass and the content pass.     *)
(***************************************************************************)
Pop(seq) == SubSeq(seq, 1, Len(seq) - 1)
Last(seq) == seq[Len(seq)]

\* lines 418-424: the drained entries, last first, each with its offset
DrainRev(f, inode_ordered) ==
    LET r == Reverse(inode_ordered)
    IN [i \in 1..Len(r) |->
           LET extents == extent_map(f, r[i].path)
           IN << IF extents # <<>> THEN extents[1].physical ELSE 0, r[i] >>]

\* variant: returning None counts as prefetch feedback
Exhausted_feedback(s) == [s EXCEPT !.prefetch_cap = CapAfterHit(@)]

\* line 443: None is returned, and nothing is written
Exhausted(s) == s

\* lines 434-443
ContentPass(s, log) ==
    IF s.phase = "ContentPass" \/ (is_empty(s) /\ s.phy_sorted_leaves # <<>>)
    THEN IF s.phy_sorted_leaves = <<>>
         THEN Out(s, Append(log, Ev("panic", 0, 435)), RetPanic)
         ELSE LET pair == Last(s.phy_sorted_leaves)
                  s1 == [s EXCEPT !.phy_sorted_leaves = Pop(@)]
                  s2 == IF s1.phy_sorted_leaves = <<>>
                        THEN [s1 EXCEPT !.phase = "DirWalk"] ELSE s1
              IN Out(s2, Append(log, Ev("yield", pair[2].path, pair[1])),
                     RetOk(pair[2]))
    ELSE Out(Exhausted(s), log, RetNone)

\* lines 406-432
InodePass(f, s, log) ==
    IF s.phase = "InodePass" \/ (is_empty(s) /\ s.inode_ordered # <<>>)
    THEN IF s.inode_ordered = <<>>
         THEN Out(s, Append(log, Ev("panic", 0, 407)), RetPanic)
         ELSE IF s.order = "Inode"
         THEN LET dent == Last(s.inode_ordered)
                  s1 == [s EXCEPT !.inode_ordered = Pop(@)]
                  s2 == IF s1.inode_ordered = <<>>
                        THEN [s1 EXCEPT !.phase = "DirWalk"] ELSE s1
              IN Out(s2, Append(log, Ev("yield", dent.path, dent.ino)), RetOk(dent))
         ELSE IF s.order = "Content"
         THEN LET leaves == s.phy_sorted_leaves \o DrainRev(f, s.inode_ordered)
              IN Bind([s EXCEPT !.inode_ordered = <<>>,
                                !.phy_sorted_leaves = sort_by_key(leaves, pair_key),
                                !.phase = "ContentPass"],
                      LAMBDA s1 : ContentPass(s1, Append(log, Ev("drain", 0,
                                                                 Len(s.inode_ordered)))))
         ELSE Out(s, Append(log, Ev("panic", 0, 429)), RetPanic)
    ELSE ContentPass(s, log)

next(f, s) ==
    Bind(DirWalk(f, s, <<>>), LAMBDA w :
        IF is_some(w.ret)
        THEN Out(w.self, w.log, unwrap(w.ret))
        ELSE InodePass(f, w.self, w.log))

(***************************************************************************)
(* The file systems a behaviour may start with.                            *)
(*   parent[n]  the directory holding n (0: n is a top-level path)         *)
(*   kind[n]    "dir" or "file"                                            *)
(*   ino[n]     inode number                                               *)
(*   ext[n]     the extent map of n (<<>>: the query fails or is empty)    *)
(*   faults     <<"open", n>>, <<"dent", n>>, <<"ftype", n>>: the call on  *)
(*              n that fails                                               *)
(*   mounts     /proc/mounts;  dead: the devices that cannot be opened     *)
(***************************************************************************)
Extent(p, l) == [physical |-> p, length |-> l]

Shapes ==
    { sh \in [parent : [Nodes -> 0..(NumNodes - 1)], kind : [Nodes -> {"dir", "file"}]] :
        \A n \in Nodes :
            /\ sh.parent[n] < n
            /\ sh.parent[n] # 0 => sh.kind[sh.parent[n]] = "dir"
            /\ sh.parent[n] = 0 => (sh.kind[n] = "dir" /\ n <= MaxRoots) }

\* a node's layout o: one extent of one block at offset o, or none when o = 0
Layouts == [Nodes -> 0..MaxOff]
LayoutExt(o) == IF o = 0 THEN <<>> ELSE <<Extent(o, 1)>>
\* inode numbers run against the offsets, so that neither order implies the other
LayoutIno(o) == 1 + ((MaxOff - o) % MaxIno)

\* a top-level path is only ever a root, whose inode and extents are not read
ShapeLayouts(sh) == { l \in Layouts : \A n \in Nodes : sh.parent[n] = 0 => l[n] = 0 }

MakeFs(sh, lay, fl, mounts, dead) ==
    [parent |-> sh.parent, kind |-> sh.kind,
     ino |-> [n \in Nodes |-> LayoutIno(lay[n])],
     ext |-> [n \in Nodes |-> LayoutExt(lay[n])],
     faults |-> fl, mounts |-> mounts, dead |-> dead]

\* every layout without a fault; opening 2 fails, on the layouts of collisions
\* (0..1); reading the entry 3 or its file type fails, with no extent known
ScanFs ==
    UNION { { MakeFs(sh, lay, {}, <<>>, {}) : lay \in ShapeLayouts(sh) }
            \cup { MakeFs(sh, lay, {<<"open", 2>>}, <<>>, {}) :
                      lay \in { l \in ShapeLayouts(sh) : \A n \in Nodes : l[n] <= 1 } }
            \cup { MakeFs(sh, [n \in Nodes |-> 0], {<<k, 3>>}, <<>>, {}) :
                      k \in {"dent", "ftype"} } :
            sh \in Shapes }

(***************************************************************************)
(* The mounted file systems: directories only, with extents of the size    *)
(* of the prefetch budget, and one wide tree.                              *)
(***************************************************************************)
Mount(file, spec, vfstype) == [file |-> file, spec |-> spec, vfstype |-> vfstype]

\* a directory's extents p: none, one of 3/4 LIMIT, or two adjacent ones of
\* 1/4 LIMIT each
PrefetchExt(p) ==
    IF p = 0 THEN <<>>
    ELSE IF p = 1 THEN <<Extent(4096, 3 * (LIMIT \div 4))>>
    ELSE <<Extent(8192, LIMIT \div 4), Extent(8192 + LIMIT \div 4, LIMIT \div 4)>>

DirShapes == { sh \in Shapes : \A n \in Nodes : sh.kind[n] = "dir" }

MakePrefetchFs(sh, lay, mounts, dead) ==
    [parent |-> sh.parent, kind |-> sh.kind,
     ino |-> [n \in Nodes |-> n],
     ext |-> [n \in Nodes |-> PrefetchExt(lay[n])],
     faults |-> {}, mounts |-> mounts, dead |-> dead]

\* one root holding Fanout directories (no extents), each holding one file
WideFs ==
    LET N == 1 + 2 * Fanout
    IN [parent |-> [n \in 1..N |-> IF n = 1 THEN 0
                                   ELSE IF n <= 1 + Fanout THEN 1 ELSE n - Fanout],
        kind |-> [n \in 1..N |-> IF n <= 1 + Fanout THEN "dir" ELSE "file"],
        ino |-> [n \in 1..N |-> n],
        ext |-> [n \in 1..N |-> <<>>],
        faults |-> {},
        mounts |-> <<Mount(0, "sda", "ext4")>>,
        dead |-> {}]

\* every layout on one ext4 mount; the uniform layouts on two mounts, on a
\* mount that is not ext3/ext4, and with a device that cannot be opened
PrefetchFs ==
    UNION { { MakePrefetchFs(sh, lay, <<Mount(0, "sda", "ext4")>>, {}) :
                 lay \in { l \in ShapeLayouts(sh) : \A n \in Nodes : l[n] <= 2 } }
            \cup { MakePrefetchFs(sh, [n \in Nodes |-> IF sh.parent[n] = 0 THEN 0 ELSE p],
                                  m[1], m[2]) :
                      p \in 1..2,
                      m \in { << <<Mount(0, "sda", "ext4"), Mount(2, "sdb", "ext3")>>, {} >>,
                              << <<Mount(0, "sda", "ext4"), Mount(2, "sdb", "ext3")>>,
                                 {"sdb"} >>,
                              << <<Mount(0, "sda", "btrfs")>>, {} >> } } :
            sh \in DirShapes }
    \cup {WideFs}

\* one root on an ext4 mount holding directories only, each with one extent
\* that the extent-map query reports anywhere in the first blocks: apart,
\* adjacent, overlapping or one inside the other
CoalesceExt == { Extent(p, l) : p \in 1..MaxPhys, l \in 1..MaxLen }
CoalesceFs ==
    { [parent |-> [n \in Nodes |-> IF n = 1 THEN 0 ELSE 1],
       kind |-> [n \in Nodes |-> "dir"],
       ino |-> [n \in Nodes |-> n],
       ext |-> [n \in Nodes |-> IF n = 1 THEN <<>> ELSE <<e[n]>>],
       faults |-> {},
       mounts |-> <<Mount(0, "sda", "ext4")>>,
       dead |-> {}] : e \in [Nodes \ {1} -> CoalesceExt] }

(***************************************************************************)
(* The public methods, one action each.                                    *)
(***************************************************************************)
Orders == {"Dentries", "Inode", "Content"}

\* the caller configures the scanner first, then adds roots, then iterates
Configuring == trace = <<>>
Iterated == \E i \in 1..Len(trace) : trace[i].op # "add_root"

set_order(ord) ==
    /\ Configuring
    /\ self' = [self EXCEPT !.order = ord]
    /\ ret' = Ret("Unit", NoEntry)
    /\ idle' = 0
    /\ UNCHANGED <<fs, trace, roots, calls>>

set_batchsize(batch) ==
    /\ Configuring
    /\ self' = [self EXCEPT !.batch_size = batch]
    /\ ret' = Ret("Unit", NoEntry)
    /\ idle' = 0
    /\ UNCHANGED <<fs, trace, roots, calls>>

set_prefilter(rejected) ==
    /\ Configuring
    /\ self' = [self EXCEPT !.prefilter = Some(rejected)]
    /\ ret' = Ret("Unit", NoEntry)
    /\ idle' = 0
    /\ UNCHANGED <<fs, trace, roots, calls>>

prefetch_dirs(val) ==
    /\ Configuring
    /\ self' = [self EXCEPT !.mountpoints = IF val THEN fs.mounts ELSE <<>>]
    /\ ret' = Ret("Unit", NoEntry)
    /\ idle' = 0
    /\ UNCHANGED <<fs, trace, roots, calls>>

\* std::fs::metadata(&path)
metadata_ok(f, path) == path \in NodesOf(f)

\* a scan is under way: next() was called and the last call did not end it
Scanning == Iterated /\ ret.tag # "None"

add_root(path) ==
    /\ calls < MaxRoots
    /\ IF metadata_ok(fs, path)
       THEN /\ self' = add(self, Entry_new(path, fs.kind[path], fs.ino[path], <<>>), None)
            /\ ret' = Ret("Unit", NoEntry)
            /\ trace' = Append(trace, Ev("add_root", path, 0))
            /\ roots' = Append(roots, path)
            /\ calls' = calls + 1
       ELSE /\ ret' = RetErr(path)
            /\ UNCHANGED <<self, trace, roots, calls>>
    /\ idle' = 0
    /\ UNCHANGED fs

Iterator_next ==
    \E r \in {next(fs, self)} :
       /\ self' = r.self
       /\ ret' = r.ret
       /\ trace' = trace \o r.log
       /\ idle' = IF r.ret.tag = "None" THEN Min(idle + 1, MaxIdle) ELSE 0
       /\ UNCHANGED <<fs, roots, calls>>

TopLevel(f) == { n \in NodesOf(f) : f.parent[n] = 0 }
\* the prefilters tried: one that rejects the even paths, directories or not
FilterSets(f) == { { n \in NodesOf(f) : n % 2 = 0 } }

Next ==
    \/ \E ord \in Orders : set_order(ord)
    \/ \E batch \in 1..MaxBatch : set_batchsize(batch)
    \/ \E rejected \in FilterSets(fs) : set_prefilter(rejected)
    \/ \E val \in BOOLEAN : prefetch_dirs(val)
    \/ \E path \in TopLevel(fs) \cup {Missing} : ~Scanning /\ add_root(path)
    \/ Iterator_next

\* the caller adds roots at any time, between any two calls of next(), and
\* may set a batch size of 0
NextInterleaved ==
    \/ \E ord \in Orders : set_order(ord)
    \/ \E batch \in 0..MaxBatch : set_batchsize(batch)
    \/ \E rejected \in FilterSets(fs) : set_prefilter(rejected)
    \/ \E val \in BOOLEAN : prefetch_dirs(val)
    \/ \E path \in TopLevel(fs) \cup {Missing} : add_root(path)
    \/ Iterator_next

InitWith(family) ==
    /\ self = ToScan_new
    /\ fs \in family
    /\ ret = Ret("New", NoEntry)
    /\ trace = <<>>
    /\ roots = <<>>
    /\ calls = 0
    /\ idle = 0

Init == InitWith(ScanFs)

Spec == Init /\ [][Next]_vars

\* the caller goes on calling next(); the file systems are the chains, where each
\* directory is discovered while the cursor is at its parent's offset
LiveFs == { f \in ScanFs : \A n \in Nodes : f.parent[n] = n - 1 }
InitLive == InitWith(LiveFs)
SpecLive == InitLive /\ [][Next]_vars /\ WF_vars(Iterator_next)

\* the same scanner and calls, on the mounted file systems
InitPrefetch == InitWith(PrefetchFs)
SpecPrefetch == InitPrefetch /\ [][Next]_vars

\* roots added during the scan, on the file systems whose directories have no
\* extents or share the offset 1
InterleavedFs == { f \in ScanFs : \A n \in Nodes : Len(f.ext[n]) = 0 \/ f.ext[n][1].physical = 1 }
InitInterleaved == InitWith(InterleavedFs)
SpecInterleaved == InitInterleaved /\ [][NextInterleaved]_vars

\* the same scanner and calls, on the file systems of overlapping extents
InitCoalesce == InitWith(CoalesceFs)
SpecCoalesce == InitCoalesce /\ [][Next]_vars

(***************************************************************************)
(* Reading the history.                                                    *)
(***************************************************************************)
Idx == 1..Len(trace)
At(op, p) == { i \in Idx : trace[i].op = op /\ trace[i].path = p }
Count(op, p) == Cardinality(At(op, p))
Yields == { i \in Idx : trace[i].op = "yield" }

PendingPaths(s) ==
    { s.unordered[i].path : i \in 1..Len(s.unordered) }
    \cup { s.phy_sorted[k].path : k \in DOMAIN s.phy_sorted }

\* the entries enumerated in a root or below it
Scope == UNION { Below(fs, roots[i]) : i \in 1..Len(roots) }
Passes(n) == is_some(self.prefilter) => filter(self.prefilter, n, fs.kind[n])
Expected == { n \in Scope : Passes(n) }

NoFailure == fs.faults = {}
RootsDisjoint ==
    \A i, j \in 1..Len(roots) : i # j => roots[i] \notin Ancestors(fs, roots[j])

(***************************************************************************)
(* C1  Completeness without duplicates: with disjoint roots and no I/O     *)
(* failure, no entry is ever yielded twice, only entries that pass the     *)
(* prefilter are yielded, and when next() returns None every entry below a *)
(* root that passes the prefilter has been yielded exactly once.           *)
(***************************************************************************)
C1_Completeness ==
    (NoFailure /\ RootsDisjoint) =>
        /\ \A n \in Nodes : Count("yield", n) <= 1
        /\ \A n \in Nodes : Count("yield", n) = 1 => n \in Expected
        /\ ret.tag = "None" =>
              /\ \A n \in Expected : Count("yield", n) = 1
              /\ Cardinality(Yields) = Cardinality(Expected)

C1_Witness ==
    /\ NoFailure /\ RootsDisjoint /\ ret.tag = "None"
    /\ Len(roots) = 2
    /\ self.order = "Content" /\ self.batch_size = 2
    /\ Cardinality(Expected) = 2
    /\ \E n \in Scope : fs.kind[n] = "dir" /\ Children(fs, n) # {}

(***************************************************************************)
(* C2  Order = Inode: the entries emitted with no directory entry read in  *)
(* between have non-decreasing inode numbers.                              *)
(***************************************************************************)
NoneBetween(op, i, j) == \A k \in (i + 1)..(j - 1) : trace[k].op # op

C2_InodeBatchSorted ==
    self.order = "Inode" =>
        \A i, j \in Yields :
            (i < j /\ NoneBetween("read", i, j)) => trace[i].x <= trace[j].x

(***************************************************************************)
(* C3  Order = Content: the entries emitted between one drain of           *)
(* inode_ordered into phy_sorted_leaves and the next have non-decreasing   *)
(* first-extent offsets (0 when the extent map is empty or fails).         *)
(***************************************************************************)
C3_ContentBatchSorted ==
    self.order = "Content" =>
        \A i, j \in Yields :
            (i < j /\ NoneBetween("drain", i, j)) => trace[i].x <= trace[j].x

(***************************************************************************)
(* C4  next() returns None only in the terminal state: the work queue and  *)
(* both buffers are empty and no directory is open.                        *)
(***************************************************************************)
C4_NoneOnlyWhenTerminal ==
    ret.tag = "None" =>
        /\ DOMAIN self.phy_sorted = {}
        /\ self.unordered = <<>>
        /\ self.inode_ordered = <<>>
        /\ self.phy_sorted_leaves = <<>>
        /\ self.current_dir = None

C4_Witness ==
    /\ ret.tag = "None"
    /\ Cardinality(Yields) >= 2
    /\ \E d \in Nodes : Count("open", d) = 1 /\ Count("close", d) = 1

(***************************************************************************)
(* C5  Idempotent exhaustion: once next() has returned None, a further     *)
(* next() call returns None again and leaves the scanner as it was.        *)
(***************************************************************************)
C5_IdempotentExhaustion ==
    [][(ret.tag = "None" /\ Iterator_next) =>
          (ret'.tag = "None" /\ self' = self /\ trace' = trace)]_vars

C5_Witness ==
    /\ ret.tag = "None" /\ idle = 2
    /\ Cardinality(Yields) >= 1
    /\ self.cursor > 0

(***************************************************************************)
(* C6  The prefilter affects emission only: a rejected directory is still  *)
(* queued (in phy_sorted only at its first-extent offset), it is opened,   *)
(* each child is read and passed to the prefilter, and the directories are *)
(* opened in the order in which a scan without prefilter opens them.       *)
(***************************************************************************)
IsOpen(ev) == ev.op = "open"
OpenSeq(log) ==
    LET o == SelectSeq(log, IsOpen) IN [i \in 1..Len(o) |-> <<o[i].path, o[i].x>>]

\* next() called until it returns None: the directories opened, in order
RECURSIVE RunOpens(_, _, _)
RunOpens(f, s, acc) ==
    LET r == next(f, s)
    IN IF r.ret.tag \in {"None", "Panic"}
       THEN acc \o OpenSeq(r.log)
       ELSE RunOpens(f, r.self, acc \o OpenSeq(r.log))

RECURSIVE WithRoots(_, _, _)
WithRoots(f, s, rs) ==
    IF rs = <<>> THEN s
    ELSE WithRoots(f, add(s, Entry_new(Head(rs), f.kind[Head(rs)], f.ino[Head(rs)], <<>>),
                          None), Tail(rs))

\* the same scan with no prefilter set
Unfiltered ==
    WithRoots(fs, [ToScan_new EXCEPT !.order = self.order,
                                     !.batch_size = self.batch_size], roots)

\* every root was added before the first next() call
SingleStage == \A i \in 1..Len(roots) : trace[i].op = "add_root"

QueuedOrTaken(d) ==
    \/ d \in PendingPaths(self)
    \/ Count("take", d) >= 1

AtItsOffset(d) ==
    \A k \in DOMAIN self.phy_sorted :
        self.phy_sorted[k].path = d =>
            fs.ext[d] # <<>> /\ k = fs.ext[d][1].physical

RejectedDirs ==
    { d \in Nodes : fs.kind[d] = "dir" /\ Count("read", d) >= 1 /\ ~Passes(d) }

C6_FilterOnlyEmission ==
    /\ \A d \in RejectedDirs : QueuedOrTaken(d) /\ AtItsOffset(d)
    /\ (ret.tag = "None" /\ NoFailure) =>
          \A d \in RejectedDirs :
              /\ Count("open", d) >= 1
              /\ \A c \in Children(fs, d) :
                    Count("read", c) >= 1 /\ Count("filter", c) = Count("read", c)
    /\ (ret.tag = "None" /\ SingleStage) =>
          OpenSeq(trace) = RunOpens(fs, Unfiltered, <<>>)

C6_Witness ==
    /\ ret.tag = "None" /\ NoFailure /\ SingleStage /\ Len(roots) = 1
    /\ \E d \in RejectedDirs :
          /\ fs.ext[d] # <<>>
          /\ \E c \in Children(fs, d) : Passes(c) /\ Count("yield", c) = 1

(***************************************************************************)
(* C9  Directory open failure: the call returns Err for that directory,    *)
(* which has left the work queue and is never taken again; the other       *)
(* pending directories and the buffered entries are kept, and the later    *)
(* calls yield every remaining entry.                                      *)
(***************************************************************************)
OpenFails == { i \in Idx : trace[i].op = "open" /\ trace[i].x = 0 }
Discovered(d) == fs.kind[d] = "dir" /\ Count("read", d) >= 1
IsRoot(d) == \E i \in 1..Len(roots) : roots[i] = d
BufferedPaths(s) ==
    { s.inode_ordered[i].path : i \in 1..Len(s.inode_ordered) }
    \cup { s.phy_sorted_leaves[i][2].path : i \in 1..Len(s.phy_sorted_leaves) }
OnlyOpenFault == fs.faults = {<<"open", 2>>}
\* the last call made was next(), and it did not return None
AfterNext == idle = 0 /\ ret.tag # "Unit" /\ ret.entry.path # Missing

C9_OpenFailure ==
    (RootsDisjoint /\ OnlyOpenFault) =>
        /\ \A d \in Nodes : Count("take", d) <= 1
        /\ (Len(trace) \in OpenFails /\ AfterNext) =>
              LET d == trace[Len(trace)].path
              IN /\ ret.tag = "Err" /\ ret.entry.path = d
                 /\ d \notin PendingPaths(self)
                 /\ PendingPaths(self) =
                       { p \in Nodes : (IsRoot(p) \/ Discovered(p)) /\ Count("take", p) = 0 }
                 /\ self.order # "Dentries" =>
                       BufferedPaths(self) =
                          { n \in Nodes : Count("read", n) >= 1 /\ Passes(n)
                                          /\ Count("yield", n) = 0 }
        /\ ret.tag = "None" =>
              /\ Cardinality(OpenFails) <= 1
              /\ \A n \in Expected \ Below(fs, 2) : Count("yield", n) = 1
              /\ \A n \in Below(fs, 2) : Count("yield", n) = 0
              /\ \A d \in (Scope \ Below(fs, 2)) \ {2} :
                    fs.kind[d] = "dir" => Count("open", d) = 1

C9_Witness ==
    /\ RootsDisjoint /\ OnlyOpenFault /\ ret.tag = "None"
    /\ self.order = "Inode"
    /\ \E i \in OpenFails :
          /\ \E j \in Yields : j > i
          /\ \E j \in Idx : j > i /\ trace[j].op = "open" /\ trace[j].x = 1

(***************************************************************************)
(* C10  Extent-map failure is never user-visible: a discovered directory   *)
(* whose extent map fails or is empty causes no Err, is queued in          *)
(* unordered and never in phy_sorted, and is opened later, its children    *)
(* read and yielded.                                                       *)
(***************************************************************************)
Unmapped == { d \in Nodes : Discovered(d) /\ extent_map(fs, d) = <<>> }

C10_ExtentFailureInvisible ==
    NoFailure =>
        /\ \A i \in Idx : trace[i].op # "err" /\ (trace[i].op = "open" => trace[i].x = 1)
        /\ ret.tag = "Err" => ret.entry.path = Missing
        /\ \A d \in Unmapped :
              /\ \A k \in DOMAIN self.phy_sorted : self.phy_sorted[k].path # d
              /\ \/ \E i \in 1..Len(self.unordered) : self.unordered[i].path = d
                 \/ Count("take", d) >= 1
              /\ \A i \in At("take", d) : trace[i].x = -1
        /\ ret.tag = "None" =>
              \A d \in Unmapped :
                  /\ Count("open", d) >= 1
                  /\ \A c \in Children(fs, d) :
                        Count("read", c) >= 1 /\ (Passes(c) => Count("yield", c) >= 1)

C10_Witness ==
    /\ NoFailure /\ ret.tag = "None"
    /\ \E d \in Unmapped :
          /\ ~IsRoot(d)
          /\ \E c \in Children(fs, d) : Count("yield", c) = 1
    /\ \E d \in Nodes : Discovered(d) /\ extent_map(fs, d) # <<>>

(***************************************************************************)
(* C7  Prefetch budget bound: the bytes recorded in prefetched never       *)
(* exceed LIMIT plus the largest extent_sum inserted so far, when a        *)
(* prefetch() call returns and between the calls of next().                *)
(***************************************************************************)
Inserted(upto) == { trace[i].x : i \in { j \in 1..upto : trace[j].op = "prefetch" } }
MaxInserted(upto) ==
    IF Inserted(upto) = {} THEN 0
    ELSE CHOOSE m \in Inserted(upto) : \A x \in Inserted(upto) : x <= m

C7_PrefetchBudget ==
    /\ SumValues(self.prefetched) <= LIMIT + MaxInserted(Len(trace))
    /\ \A i \in Idx : trace[i].op = "budget" => trace[i].x <= LIMIT + MaxInserted(i)

C7_Witness ==
    /\ SumValues(self.prefetched) > LIMIT
    /\ \E i \in Idx : trace[i].op = "hit"
    /\ \E i \in Idx : trace[i].op = "budget" /\ trace[i].x > LIMIT

(***************************************************************************)
(* C8  Adaptive cap bounds, as stated: whenever prefetched is non-empty,   *)
(* 2 <= prefetch_cap <= 2048.                                              *)
(***************************************************************************)
C8_CapAtLeastTwo ==
    self.prefetched # <<>> => (2 <= self.prefetch_cap /\ self.prefetch_cap <= 2048)

(***************************************************************************)
(* C8  Adaptive cap bounds, amended: prefetch_cap <= 2048 always, and      *)
(* whenever prefetched is non-empty between two calls, prefetch_cap >= 1   *)
(* (it is 1 after the first hit and at least 2 after any later feedback).  *)
(***************************************************************************)
Feedback == { i \in Idx : trace[i].op \in {"hit", "miss"} }

C8_CapBounds ==
    /\ 0 <= self.prefetch_cap /\ self.prefetch_cap <= 2048
    /\ self.prefetched # <<>> => self.prefetch_cap >= 1
    /\ Cardinality(Feedback) >= 2 => self.prefetch_cap >= 2
    /\ \A i \in Feedback : trace[i].op = "miss" => trace[i].x = 2

C8_Witness ==
    /\ self.prefetched # <<>>
    /\ self.prefetch_cap = 2048
    /\ ret.tag = "Ok"

(***************************************************************************)
(* C11  Order = Dentries: the phase is always DirWalk, inode_ordered and   *)
(* phy_sorted_leaves are always empty, and the next() call that reads an   *)
(* entry passing the prefilter returns that entry (and a call returning    *)
(* Ok read its entry itself).                                              *)
(***************************************************************************)
NewEvents == SubSeq(trace', Len(trace) + 1, Len(trace'))

ReadAndYielded ==
    LET new == NewEvents
        n == Len(new)
    IN /\ \A i \in 1..n :
             (new[i].op = "read" /\ Passes(new[i].path)) =>
                 /\ new[n].op = "yield" /\ new[n].path = new[i].path
                 /\ \A j \in (i + 1)..n : new[j].op \in {"filter", "yield"}
                 /\ ret'.tag = "Ok" /\ ret'.entry.path = new[i].path
       /\ ret'.tag = "Ok" =>
             /\ n >= 2 /\ new[n].op = "yield" /\ new[n].path = ret'.entry.path
             /\ \E i \in 1..(n - 1) : new[i].op = "read" /\ new[i].path = ret'.entry.path

C11_DentriesImmediate ==
    /\ [](self.order = "Dentries" =>
             /\ self.phase = "DirWalk"
             /\ self.inode_ordered = <<>>
             /\ self.phy_sorted_leaves = <<>>)
    /\ [][(self.order = "Dentries" /\ Iterator_next) => ReadAndYielded]_vars

C11_Witness ==
    /\ self.order = "Dentries" /\ is_some(self.prefilter)
    /\ ret.tag = "Ok"
    /\ Cardinality(Yields) >= 2
    /\ \E i \in Idx : trace[i].op = "filter" /\ trace[i].x = 0

(***************************************************************************)
(* C15  Batching: with Order Inode or Content and a fixed batch_size >= 1,  *)
(* inode_ordered never holds more than batch_size entries; every batch     *)
(* closed by the threshold has exactly batch_size entries, and after it is *)
(* closed no directory is taken, opened or read before batch_size entries  *)
(* have been emitted, each call emitting one buffered entry; an entry is   *)
(* emitted outside such a batch only when the work queue is empty (the      *)
(* last batch of the scan).                                                *)
(***************************************************************************)
WalkOps == {"take", "open", "read", "close", "wrap"}
Batches == { i \in Idx : trace[i].op = "batch" }
YieldsIn(i, j) == Cardinality({ k \in Yields : i < k /\ k <= j })
Buffered(s) == Len(s.inode_ordered) + Len(s.phy_sorted_leaves)

\* the yield at j is one of the batch_size entries of a closed batch
InFullBatch(tr, j) ==
    \E i \in 1..(j - 1) :
        /\ tr[i].op = "batch"
        /\ Cardinality({ k \in (i + 1)..j : tr[k].op = "yield" }) <= tr[i].x

BatchBound ==
    /\ Len(self.inode_ordered) <= self.batch_size
    /\ Len(self.phy_sorted_leaves) <= self.batch_size
    /\ \A i \in Batches : trace[i].x = self.batch_size
    /\ \A i \in Batches : \A j \in Idx :
          (i < j /\ trace[j].op \in WalkOps) => YieldsIn(i, j) >= trace[i].x
    /\ self.phase # "DirWalk" => Buffered(self) >= 1

EmitsBatch ==
    /\ self.phase # "DirWalk" =>
          /\ \A i \in 1..Len(NewEvents) : NewEvents[i].op \notin WalkOps
          /\ ret'.tag = "Ok" /\ ret'.entry.path \in BufferedPaths(self)
          /\ Buffered(self') = Buffered(self) - 1
          /\ BufferedPaths(self') \subseteq BufferedPaths(self)
    /\ ret'.tag = "Ok" =>
          InFullBatch(trace', Len(trace')) \/ is_empty(self')

C15_Batching ==
    /\ [](self.order # "Dentries" => BatchBound)
    /\ [][(self.order # "Dentries" /\ Iterator_next) => EmitsBatch]_vars

\* a batch of two was closed, emitted in full, and the walk went on
C15_Witness ==
    /\ self.order = "Content" /\ self.batch_size = 2 /\ ret.tag = "None"
    /\ \E i \in Batches : \E j \in Idx :
          i < j /\ trace[j].op = "open" /\ trace[i].x = 2 /\ YieldsIn(i, j) = 2
    /\ \E k \in Yields : ~InFullBatch(trace, k)

(***************************************************************************)
(* C12  Monotonic sweep: get_next takes from phy_sorted the entry at the   *)
(* smallest key >= cursor and sets cursor to that key; between two resets  *)
(* of cursor the keys taken are non-decreasing; of two sibling directories *)
(* queued in phy_sorted at or above the cursor, the one at the lower       *)
(* offset is opened first.                                                 *)
(***************************************************************************)
Sweep == { i \in Idx : trace[i].op = "wrap" \/ (trace[i].op = "take" /\ trace[i].x >= 0) }
\* the cursor after the first upto events
CursorAt(upto) ==
    LET before == { i \in Sweep : i <= upto }
    IN IF before = {} THEN 0
       ELSE LET m == CHOOSE i \in before : \A j \in before : j <= i
            IN IF trace[m].op = "wrap" THEN 0 ELSE trace[m].x

TakesSmallest ==
    LET g == get_next(fs, self)
        keys == DOMAIN self.phy_sorted
    IN IF self.unordered = <<>> /\ \E k \in keys : k >= self.cursor
       THEN /\ is_some(g.key)
            /\ LET k == unwrap(g.key)
               IN /\ k \in keys /\ k >= self.cursor
                  /\ \A j \in keys : j >= self.cursor => k <= j
                  /\ g.self.cursor = k
                  /\ g.res = Some(self.phy_sorted[k])
                  /\ DOMAIN g.self.phy_sorted = keys \ {k}
       ELSE g.key = None /\ g.self.cursor = self.cursor

SiblingsInOrder ==
    \A a, b \in Nodes :
        LET ta == At("take", a)
            tb == At("take", b)
            ra == At("read", a)
            rb == At("read", b)
        IN (/\ a # b /\ fs.parent[a] = fs.parent[b]
            /\ Cardinality(ta) = 1 /\ Cardinality(tb) = 1
            /\ Cardinality(ra) = 1 /\ Cardinality(rb) = 1
            /\ \A i \in ta, j \in tb :
                  /\ trace[j].x >= 0 /\ trace[j].x < trace[i].x
                  /\ \A r \in rb : CursorAt(r) <= trace[j].x)
           => \A i \in ta, j \in tb : j < i

C12_MonotonicSweep ==
    /\ \A i, j \in Sweep :
          (i < j /\ trace[i].op = "take" /\ trace[j].op = "take"
                 /\ NoneBetween("wrap", i, j)) => trace[i].x <= trace[j].x
    /\ self.cursor = CursorAt(Len(trace))
    /\ TakesSmallest
    /\ SiblingsInOrder

C12_Witness ==
    /\ ret.tag = "None"
    /\ \E i \in Idx : trace[i].op = "wrap"
    /\ \E i, j \in Sweep : i < j /\ trace[i].op = "take" /\ trace[j].op = "take"
                            /\ NoneBetween("wrap", i, j) /\ trace[i].x < trace[j].x
    /\ \E a, b \in Nodes :
          /\ a < b /\ fs.parent[a] = fs.parent[b]
          /\ \E i \in At("take", a), j \in At("take", b) :
                /\ j < i /\ trace[j].x >= 0 /\ trace[j].x < trace[i].x
                /\ \A r \in At("read", b) : CursorAt(r) <= trace[j].x

(***************************************************************************)
(* C13  add never loses a pending directory: after add(e, pos) the pending *)
(* entries are the previous ones plus e, counted with multiplicity; on an  *)
(* occupied key e holds the key and the previous occupant is at the back   *)
(* of unordered; without pos e is at the back of unordered and phy_sorted  *)
(* is unchanged.                                                           *)
(***************************************************************************)
PendingCount(s, v) ==
    Cardinality({ i \in 1..Len(s.unordered) : s.unordered[i] = v })
    + Cardinality({ k \in DOMAIN s.phy_sorted : s.phy_sorted[k] = v })
PendingValues(s) ==
    { s.unordered[i] : i \in 1..Len(s.unordered) }
    \cup { s.phy_sorted[k] : k \in DOMAIN s.phy_sorted }
EntryOf(n) == Entry_new(n, fs.kind[n], fs.ino[n], extent_map(fs, n))

AddKeeps(s, e, pos) ==
    LET t == add(s, e, pos)
    IN /\ \A v \in PendingValues(s) \cup PendingValues(t) \cup {e} :
             PendingCount(t, v) = PendingCount(s, v) + (IF v = e THEN 1 ELSE 0)
       /\ [t EXCEPT !.phy_sorted = <<>>, !.unordered = <<>>]
             = [s EXCEPT !.phy_sorted = <<>>, !.unordered = <<>>]
       /\ IF pos = None
          THEN t.unordered = Append(s.unordered, e) /\ t.phy_sorted = s.phy_sorted
          ELSE LET k == unwrap(pos)
               IN /\ t.phy_sorted[k] = e
                  /\ DOMAIN t.phy_sorted = DOMAIN s.phy_sorted \cup {k}
                  /\ \A j \in DOMAIN s.phy_sorted \ {k} : t.phy_sorted[j] = s.phy_sorted[j]
                  /\ IF k \in DOMAIN s.phy_sorted
                     THEN t.unordered = Append(s.unordered, s.phy_sorted[k])
                     ELSE t.unordered = s.unordered

C13_AddKeepsPending ==
    \A n \in Nodes : \A pos \in {None} \cup { Some(k) : k \in 0..MaxOff } :
        AddKeeps(self, EntryOf(n), pos)

\* a directory was displaced during the scan, and its key is occupied again
C13_Witness ==
    /\ \E i \in 1..Len(self.unordered) :
          /\ self.unordered[i].extents # <<>>
          /\ self.unordered[i].extents[1].physical \in DOMAIN self.phy_sorted
    /\ \E i \in Idx : trace[i].op = "take" /\ trace[i].x >= 0

(***************************************************************************)
(* C14  No starvation across the cursor wrap, and termination: get_next    *)
(* returns None only when unordered is empty and every key of phy_sorted   *)
(* is below cursor, and after the reset of cursor the next get_next takes  *)
(* an entry; every entry taken is opened; a pending directory does not     *)
(* stay pending; repeated next() calls return None again and again.        *)
(***************************************************************************)
NoneOnlyBelowCursor ==
    LET g == get_next(fs, self)
    IN g.res = None =>
          /\ self.unordered = <<>>
          /\ \A k \in DOMAIN self.phy_sorted : k < self.cursor
          /\ DOMAIN self.phy_sorted # {} =>
                get_next(fs, [g.self EXCEPT !.cursor = 0]).res # None

WrapThenTake ==
    \A i \in Idx :
        /\ trace[i].op = "wrap" =>
              /\ trace[i].x > 0
              /\ i < Len(trace) /\ trace[i + 1].op = "take"
              /\ trace[i + 1].x >= 0 /\ trace[i + 1].x < trace[i].x
        /\ trace[i].op = "take" =>
              /\ i + 2 <= Len(trace)
              /\ trace[i + 2].op = "open" /\ trace[i + 2].path = trace[i].path

C14_NoStarvation ==
    /\ [](NoneOnlyBelowCursor /\ WrapThenTake)
    /\ \A d \in Nodes : (d \in PendingPaths(self)) ~> (d \notin PendingPaths(self))
    /\ []<>(ret.tag = "None")

\* a directory queued below the cursor was taken after the wrap, and the scan ended
C14_Witness ==
    /\ ret.tag = "None"
    /\ \E i \in Idx : trace[i].op = "wrap" /\ trace[i].x = 2
    /\ Cardinality(Yields) >= 2

(***************************************************************************)
(* C16  Coalescing covers the extents: for every device bucket whose       *)
(* device opens, the posix_fadvise ranges cover exactly the union of the   *)
(* bucket's extents, and two extents that are adjacent or overlap, one     *)
(* inside the other included, lie in a single range.                       *)
(***************************************************************************)
ExtentBytes(extents) ==
    UNION { extents[i].physical..(extents[i].physical + extents[i].length - 1) :
               i \in 1..Len(extents) }
RangeBytes(ranges) ==
    UNION { ranges[i].offset..(ranges[i].offset + ranges[i].len - 1) :
               i \in 1..Len(ranges) }
Touch(a, b) ==
    /\ a.physical <= b.physical + b.length
    /\ b.physical <= a.physical + a.length
InRange(e, r) ==
    r.offset <= e.physical /\ e.physical + e.length <= r.offset + r.len
Covered(extents, ranges) ==
    /\ ExtentBytes(extents) = RangeBytes(ranges)
    /\ \A i, j \in 1..Len(extents) :
          Touch(extents[i], extents[j]) =>
              \E k \in 1..Len(ranges) :
                  InRange(extents[i], ranges[k]) /\ InRange(extents[j], ranges[k])

C16_CoalescingCovers ==
    \A i \in Idx :
        trace[i].op = "fadvise" => Covered(trace[i].x.extents, trace[i].x.ranges)

(***************************************************************************)
(* C17  Pruning of failed devices: after a call in which prefetch() failed *)
(* to open the device file of some mount, mountpoints holds no mount of a  *)
(* device that failed and still holds every other mount; when no device    *)
(* open failed, mountpoints is unchanged.                                  *)
(***************************************************************************)
FailedNow ==
    { NewEvents[i].path : i \in { k \in 1..Len(NewEvents) : NewEvents[k].op = "nodev" } }

FailedPruned ==
    LET Opens(m) == m.spec \notin FailedNow
    IN self'.mountpoints = SelectSeq(self.mountpoints, Opens)

C17_PruneFailedDevices == [][Iterator_next => FailedPruned]_vars

(***************************************************************************)
(* C18  Prefetch window bound: prefetched never holds more than            *)
(* prefetch_cap + 2 paths, between the calls and when prefetch() returns;  *)
(* a hit does not decrease the cap, a miss sets it to 2, and a call whose  *)
(* last take was a miss leaves prefetched empty.                           *)
(***************************************************************************)
\* prefetch_cap after the first upto events
CapAt(upto) ==
    LET before == { i \in Feedback : i <= upto }
    IN IF before = {} THEN 0
       ELSE trace[CHOOSE i \in before : \A j \in before : j <= i].x

WindowKept ==
    /\ Cardinality(DOMAIN self.prefetched) <= self.prefetch_cap + 2
    /\ self.prefetch_cap = CapAt(Len(trace))
    /\ \A i \in Idx :
          /\ trace[i].op = "budget" => trace[i].path <= CapAt(i) + 2
          /\ trace[i].op = "hit" => trace[i].x >= CapAt(i - 1)
          /\ trace[i].op = "miss" => trace[i].x = 2

MissClears ==
    LET new == NewEvents
        fb == { i \in 1..Len(new) : new[i].op \in {"hit", "miss"} }
    IN \A i \in fb :
          (new[i].op = "miss" /\ \A j \in fb : j <= i) => self'.prefetched = <<>>

C18_WindowBound == []WindowKept /\ [][Iterator_next => MissClears]_vars

\* a prefetch() call filled the window to cap + 2 at a cap of 1 or more, and
\* there was a miss
C18_Witness ==
    /\ \E i \in Idx :
          trace[i].op = "budget" /\ CapAt(i) >= 1 /\ trace[i].path = CapAt(i) + 2
    /\ \E i \in Idx : trace[i].op = "miss"
    /\ self.prefetched # <<>>

(***************************************************************************)
(* C20  No leaked prefetch budget: every path recorded in prefetched is    *)
(* the path of an entry pending in unordered or phy_sorted, between the    *)
(* calls and right after every get_next; so prefetched is empty whenever   *)
(* the work queue is empty, at exhaustion in particular.                   *)
(***************************************************************************)
Recorded(s) == DOMAIN s.prefetched

AfterGetNext ==
    (self.phase = "DirWalk" /\ self.current_dir = None /\ ~is_empty(self)) =>
        LET g == get_next(fs, self)
        IN /\ Recorded(g.self) \subseteq PendingPaths(g.self)
           /\ is_some(g.res) =>
                 \/ unwrap(g.res).path \notin Recorded(g.self)
                 \/ unwrap(g.res).path \in PendingPaths(g.self)

C20_NoLeakedBudget ==
    /\ Recorded(self) \subseteq PendingPaths(self)
    /\ is_empty(self) => self.prefetched = <<>>
    /\ ret.tag = "None" => self.prefetched = <<>>
    /\ AfterGetNext

\* the scan is exhausted after paths with extents were recorded and a recorded
\* path was consumed while others stayed recorded
C20_Witness ==
    /\ ret.tag = "None" /\ self.prefetched = <<>>
    /\ \E i \in Idx : trace[i].op = "prefetch" /\ trace[i].x > 0
    /\ \E i \in Idx : trace[i].op = "hit"
    /\ \E i \in Idx : trace[i].op = "budget" /\ trace[i].path >= 3

(***************************************************************************)
(* C19  No assertion, panic or failing unwrap in next(): with the order    *)
(* chosen before the first call, any batch_size (0 included) and roots     *)
(* added between any two calls, no call panics, phase = InodePass implies  *)
(* Order = Inode and a non-empty inode_ordered, phase = ContentPass holds  *)
(* exactly when phy_sorted_leaves is non-empty, and Order = Dentries       *)
(* implies an empty inode_ordered.                                         *)
(***************************************************************************)
C19_NoPanic ==
    /\ ret.tag # "Panic"
    /\ \A i \in Idx : trace[i].op # "panic"
    /\ self.phase = "InodePass" => (self.order = "Inode" /\ self.inode_ordered # <<>>)
    /\ self.phase = "ContentPass" <=> self.phy_sorted_leaves # <<>>
    /\ self.order = "Dentries" => self.inode_ordered = <<>>

\* batch_size 0: an entry was emitted, a root was added while the directory
\* was still open, and the next call emitted again
C19_Witness ==
    /\ self.batch_size = 0 /\ self.order = "Content" /\ ret.tag = "Ok"
    /\ \E i, j, k \in Idx :
          /\ i < j /\ j < k
          /\ trace[i].op = "yield" /\ trace[j].op = "add_root" /\ trace[k].op = "yield"
          /\ \A m \in (i + 1)..(j - 1) : trace[m].op \notin {"close", "take"}

=============================================================================
